---- MODULE Spec2Model ----
(***************************************************************************)
(* Lifecycle of the Vulkan presentation context of src/src/vulkan.rs:      *)
(* Context::new, Context::recreate_swapchain and the Drop implementations  *)
(* of Instance, Surface, Device and Swapchain, one step per driver call.   *)
(***************************************************************************)
EXTENDS Integers, Sequences, FiniteSets, TLC

\* ------------------------------------------------------------------ bounds
MaxDevices == 2     \* physical devices the driver enumerates
MaxFamilies == 2    \* queue families of one physical device
MaxImages == 2      \* images the driver puts in one swapchain
MaxRecreate == 2    \* calls of recreate_swapchain on one context
MaxFormats == 2     \* surface formats the driver reports
MaxModes == 2       \* present modes the driver reports
MaxExtent == 2      \* largest width or height of a defined extent
WordBits == 3       \* width of the unsigned integers standing for u32

\* Every call of Swapchain::new creates at most one swapchain handle.
MaxSwapchains == MaxRecreate + 1

\* ------------------------------------------------------------------ state
VARIABLES
    pc,             \* position of the program
    mode,           \* "new": inside Context::new, "recreate": inside recreate_swapchain
    result,         \* how the last Context operation ended: "none", "Ok", "Err", "Panic"
    ret,            \* the Result a constructor handed back to its caller
    calls,          \* driver calls issued by the current Context operation, in order
    dropQueue,      \* destructor calls still to run, in order
    recreations,    \* calls of recreate_swapchain so far
    instance,       \* driver state of the instance handle
    surface,        \* driver state of the surface handle
    device,         \* Device: driver state of the logical device and its fields
    chains,         \* driver table of swapchain handles and their image views
    swapchain,      \* Context.swapchain: handle of the installed Swapchain, 0 if none
    new_swapchain,  \* the handle Swapchain::new is building, 0 if none
    physical_devices,           \* Device::new: number of enumerated devices
    pdevice,                    \* Device::new: device the loop is at (1-based)
    queue_familie_properties,   \* Device::new: families of the device last queried
    selected_device,            \* Device::new: None or Some(<<pdevice, graphics, present>>)
    probed,                     \* per queried device: <<has graphics family, has present family>>
    available_layers,   \* Instance::new: None or Some(the set the driver enumerated)
    panic_msg,          \* message of the panic that ended the operation
    waited,             \* result of the last device_wait_idle: "none", "Ok", "Err"
    inputs,             \* Swapchain::new on its own: what the surface, device and window report
    info                \* Swapchain::new on its own: the create info it arrives at

vars == <<pc, mode, result, ret, calls, dropQueue, recreations,
          instance, surface, device, chains, swapchain, new_swapchain,
          physical_devices, pdevice, queue_familie_properties, selected_device, probed,
          available_layers, panic_msg, waited, inputs, info>>

ctl == <<pc, mode, result, ret, calls, dropQueue, recreations>>
objs == <<instance, surface, device, chains, swapchain, new_swapchain>>
scan == <<physical_devices, pdevice, queue_familie_properties, selected_device, probed>>
aux == <<available_layers, panic_msg, waited>>
nego == <<inputs, info>>

\* Option<T>: None is the empty sequence, Some(x) the one-element sequence.
None == <<>>
Some(x) == <<x>>

\* ------------------------------------------------------- constant tables
\* vulkan.rs: the layers Instance::new asks for, in order
INSTANCE_LAYERS == <<"VK_LAYER_KHRONOS_validation">>
\* main.rs: the layers VulkanBase::new asks for, in order
BASE_INSTANCE_LAYERS == <<"VK_LAYER_KHRONOS_validation", "VK_KHR_swapchain">>
\* the names enumerate_instance_layer_properties may come back with
KnownLayers == {"VK_LAYER_KHRONOS_validation", "VK_LAYER_LUNARG_monitor",
                "VK_KHR_swapchain"}

\* mutant: the lookup of a layer always succeeds
layer_found_always(layer, available) == TRUE
\* available_layers.iter().any(|prop| prop_name == layer_name)
layer_found(layer, available) == layer \in available

\* for &layer_ptr in INSTANCE_LAYERS: the first layer the lookup does not find
RECURSIVE first_missing_from(_, _, _)
first_missing_from(layers, available, k) ==
    IF k > Len(layers) THEN None
    ELSE IF ~layer_found(layers[k], available) THEN Some(layers[k])
    ELSE first_missing_from(layers, available, k + 1)
first_missing(layers, available) == first_missing_from(layers, available, 1)

NoPanic == [text |-> "", layer |-> ""]
PanicMsg(text) == [text |-> text, layer |-> ""]
\* panic!("Warning: Layer {layer_name:?} not available"), panic!("Layer {layer_name:?} not supported")
LayerPanic(text, layer) == [text |-> text, layer |-> layer]

\* One queue family as the driver reports it: its GRAPHICS flag and the
\* answer of get_physical_device_surface_support ("err" is an Err result).
Families == [graphics : BOOLEAN, present : {"yes", "no", "err"}]
FamilyLists == UNION {[1..n -> Families] : n \in 0..MaxFamilies}

NoDevice == [state |-> "none", physical_device |-> 0,
             graphics_queue_family_idx |-> 0, present_queue_family_idx |-> 0,
             queue_create_infos |-> <<>>,
             graphics_queue |-> <<>>, present_queue |-> <<>>]
\* a swapchain handle as the driver knows it: the create info it was made with
\* (sharing mode, family indices, old handle), its images, and per view made
\* from it the image the view is of and how often the view was destroyed
NoChain == [created |-> FALSE, destroys |-> 0, images |-> 0,
            image_views |-> <<>>, view_images |-> <<>>, old_swapchain |-> 0,
            image_sharing_mode |-> "none", queue_family_indices |-> <<>>]

\* ------------------------------------------------ device selection helpers
\* find_map over the enumerated families: first index (0-based) with GRAPHICS.
RECURSIVE graphics_queue_from(_, _)
graphics_queue_from(fams, k) ==
    IF k > Len(fams) THEN None
    ELSE IF fams[k].graphics THEN Some(k - 1)
    ELSE graphics_queue_from(fams, k + 1)
graphics_queue(fams) == graphics_queue_from(fams, 1)

\* mutant: the presentation-support query is not consulted
supports_present_always(fam) == TRUE
\* mutant: a failed query counts as support
supports_present_unless_no(fam) == fam.present # "no"
\* get_physical_device_surface_support(..).unwrap_or(false)
supports_present(fam) == fam.present = "yes"

\* find_map over the enumerated families: first index (0-based) that can present.
RECURSIVE present_queue_from(_, _)
present_queue_from(fams, k) ==
    IF k > Len(fams) THEN None
    ELSE IF supports_present(fams[k]) THEN Some(k - 1)
    ELSE present_queue_from(fams, k + 1)
\* mutant: the graphics family is taken for presenting when it can present
present_queue_prefers_graphics(fams) ==
    IF /\ graphics_queue(fams) # None
       /\ supports_present(fams[graphics_queue(fams)[1] + 1])
    THEN graphics_queue(fams)
    ELSE present_queue_from(fams, 1)
present_queue(fams) == present_queue_from(fams, 1)

\* if let (Some(graphics), Some(present)) = (graphics_queue, present_queue)
Accept(g, p) == g # None /\ p # None

\* mutant: both indices are always pushed
both_queue_families(graphics, present) == <<graphics, present>>
\* let mut unique_queue_families = vec![graphics]; push(present) if it differs
unique_queue_families(graphics, present) ==
    IF present # graphics THEN <<graphics, present>> ELSE <<graphics>>

\* device.get_device_queue(family, 0): the queue is named by family and index
get_device_queue(family, index) == <<family, index>>

\* mutant: concurrent sharing is requested whatever the indices are
sharing_always_concurrent(graphics, present) ==
    [mode |-> "CONCURRENT", indices |-> <<graphics, present>>]
\* Swapchain::new: (image_sharing_mode, queue_family_indices); the index list
\* goes into the create info only in the CONCURRENT case
sharing(graphics, present) ==
    IF graphics = present
    THEN [mode |-> "EXCLUSIVE", indices |-> <<>>]
    ELSE [mode |-> "CONCURRENT", indices |-> <<graphics, present>>]

\* ----------------------------------------------------------- destructors
Call(c, a) == [call |-> c, arg |-> a]

\* impl Drop for Instance
DropInstance == <<Call("destroy_instance", 0)>>
\* impl Drop for Surface
DropSurface == <<Call("destroy_surface", 0)>>
\* impl Drop for Device
DropDevice == <<Call("device_wait_idle", 0), Call("destroy_device", 0)>>
\* main.rs, impl Drop for VulkanBase
DropVulkanBase == <<Call("device_wait_idle", 0), Call("destroy_device", 0),
                    Call("destroy_instance", 0)>>
\* impl Drop for Swapchain, run on the Swapchain value with handle h
DropSwapchain(h) ==
    [i \in 1..Len(chains[h].image_views) |-> Call("destroy_image_view", i)]
        \o <<Call("destroy_swapchain", 0)>>

DropOf(s) ==
    CASE s = "instance" -> DropInstance
      [] s = "surface" -> DropSurface
      [] s = "device" -> DropDevice
      [] s = "swapchain" -> DropSwapchain(swapchain)

RECURSIVE DropCalls(_)
DropCalls(structs) ==
    IF structs = <<>> THEN <<>>
    ELSE DropOf(Head(structs)) \o DropCalls(Tail(structs))

Reverse(s) == [i \in 1..Len(s) |-> s[Len(s) + 1 - i]]

\* struct Context: its fields, in declaration order (the order Rust drops them in)
ContextFields == <<"instance", "surface", "device", "swapchain">>

\* the locals of Context::new that hold a value, in declaration order
Locals ==
    SelectSeq(<<"instance", "surface", "device">>,
              LAMBDA s : CASE s = "instance" -> instance = "live"
                           [] s = "surface" -> surface = "live"
                           [] s = "device" -> device.state = "live")

\* mutant: the locals are released in the order they were created
UnwindForward(locals) == locals
\* a panic unwinds the frame of Context::new: locals drop in reverse declaration order
UnwindOrder(locals) == Reverse(locals)

\* mutant: the assignment also lets go of the device the context holds
AssignDropsDevice == DropCalls(<<"swapchain", "device">>)
\* mutant: the assignment forgets the old value without running its destructor
AssignForgetsOld == <<>>
\* self.swapchain = new_swapchain drops the value the field held
AssignDrops == DropCalls(<<"swapchain">>)

\* A driver call whose valid-usage rules are broken has undefined behaviour:
\* it may go through or bring the process down.
Outcomes(valid) == IF valid THEN {"done"} ELSE {"done", "crash"}

LiveChains == {h \in 1..MaxSwapchains : chains[h].created /\ chains[h].destroys = 0}
LiveViews == {<<h, i>> \in (1..MaxSwapchains) \X (1..MaxImages) :
                 i <= Len(chains[h].image_views) /\ chains[h].image_views[i] = 0}
ChildrenOfDevice == LiveChains # {} \/ LiveViews # {}

\* --------------------------------------------- Swapchain::new, negotiation
NoInputs == <<>>
NoInfo == <<>>

\* u32::MAX at the modelled width
U32_MAX == 2^WordBits - 1

\* the pair the code looks for, and two pairs that differ from it in one half
PreferredFormat == [format |-> "B8G8R8A8_SRGB", color_space |-> "SRGB_NONLINEAR"]
SurfaceFormats ==
    {PreferredFormat,
     [format |-> "B8G8R8A8_UNORM", color_space |-> "SRGB_NONLINEAR"],
     [format |-> "B8G8R8A8_SRGB", color_space |-> "EXTENDED_SRGB_LINEAR"]}
FormatLists == UNION {[1..n -> SurfaceFormats] : n \in 0..MaxFormats}
PresentModes == {"FIFO", "MAILBOX", "IMMEDIATE"}
ModeLists == UNION {[1..n -> PresentModes] : n \in 0..MaxModes}

\* surface_formats.iter().find(..).copied(): the first element that has both
\* the format and the color space, None when there is none
RECURSIVE format_from(_, _)
format_from(surface_formats, k) ==
    IF k > Len(surface_formats) THEN None
    ELSE IF /\ surface_formats[k].format = "B8G8R8A8_SRGB"
            /\ surface_formats[k].color_space = "SRGB_NONLINEAR"
         THEN Some(surface_formats[k])
    ELSE format_from(surface_formats, k + 1)
format_of(surface_formats) == format_from(surface_formats, 1)

\* mutant: the first reported mode is taken
present_mode_first(present_modes) ==
    IF present_modes # <<>> THEN present_modes[1] ELSE "FIFO"
\* present_modes.iter().cloned().find(|&mode| mode == MAILBOX).unwrap_or(FIFO)
present_mode_of(present_modes) ==
    IF \E k \in 1..Len(present_modes) : present_modes[k] = "MAILBOX"
    THEN "MAILBOX" ELSE "FIFO"

\* mutant: only the upper end is enforced
clamp_upper(v, min, max) == IF v > max THEN max ELSE v
\* u32::clamp (its assert!(min <= max) is clamp_panics)
clamp(v, min, max) == IF v < min THEN min ELSE IF v > max THEN max ELSE v

Extent2D(w, h) == [width |-> w, height |-> h]
\* the value of current_extent that says the surface leaves the size open
UndefinedExtent == Extent2D(U32_MAX, U32_MAX)
DefinedExtents == {Extent2D(w, h) : w \in 0..MaxExtent, h \in 0..MaxExtent}

\* the else branch of `let extent` panics when a clamp gets min > max
clamp_panics(in) ==
    /\ in.current_extent.width = U32_MAX
    /\ \/ in.min_image_extent.width > in.max_image_extent.width
       \/ in.min_image_extent.height > in.max_image_extent.height
\* let extent = if current_extent.width != u32::MAX { .. } else { .. }
extent_of(in) ==
    IF in.current_extent.width # U32_MAX
    THEN in.current_extent
    ELSE Extent2D(clamp(in.size.width, in.min_image_extent.width,
                        in.max_image_extent.width),
                  clamp(in.size.height, in.min_image_extent.height,
                        in.max_image_extent.height))

\* min_image_count + 1 on u32: a build with overflow checks panics when the
\* sum does not fit, a build without them wraps
add_overflows(in) == in.min_image_count + 1 > U32_MAX
\* let image_count = (min_image_count + 1).min(if max_image_count > 0 {..} else {u32::MAX})
image_count_of(in) ==
    LET sum == (in.min_image_count + 1) % (2^WordBits)
        upper == IF in.max_image_count > 0 THEN in.max_image_count ELSE U32_MAX
    IN IF sum < upper THEN sum ELSE upper

\* What the three queries and window.inner_size() return, and how the crate
\* is built. A driver reports min <= max for the extents, at least one image,
\* and max_image_count either 0 or at least min_image_count.
DefaultInputs ==
    [surface_formats |-> <<PreferredFormat>>,
     present_modes |-> <<"FIFO">>,
     current_extent |-> Extent2D(1, 1),
     min_image_extent |-> Extent2D(1, 1),
     max_image_extent |-> Extent2D(1, 1),
     size |-> Extent2D(1, 1),
     min_image_count |-> 1,
     max_image_count |-> 0,
     build |-> "release"]
FormatInputs == {[DefaultInputs EXCEPT !.surface_formats = f] : f \in FormatLists}
ModeInputs == {[DefaultInputs EXCEPT !.present_modes = m] : m \in ModeLists}
ExtentInputs ==
    {[DefaultInputs EXCEPT !.current_extent = c, !.min_image_extent = lo,
                           !.max_image_extent = hi, !.size = s] :
        c \in DefinedExtents \cup {UndefinedExtent},
        lo \in DefinedExtents,
        hi \in DefinedExtents,
        s \in DefinedExtents}
CountInputs ==
    {[DefaultInputs EXCEPT !.min_image_count = lo, !.max_image_count = hi,
                           !.build = b] :
        lo \in 1..U32_MAX, hi \in 0..U32_MAX, b \in {"debug", "release"}}
ValidInputs(in) ==
    /\ in.min_image_extent.width <= in.max_image_extent.width
    /\ in.min_image_extent.height <= in.max_image_extent.height
    /\ in.max_image_count = 0 \/ in.max_image_count >= in.min_image_count
NegotiateInputs ==
    {in \in FormatInputs \cup ModeInputs \cup ExtentInputs \cup CountInputs :
        ValidInputs(in)}

\* ---------------------------------------------------------------- initial
Init ==
    \* the program is either Context of vulkan.rs or VulkanBase of main.rs
    /\ \E program \in {"new", "base"} :
          /\ mode = program
          /\ pc = IF program = "new" THEN "Start" ELSE "BaseStart"
    /\ result = "none"
    /\ ret = "none"
    /\ calls = <<>>
    /\ dropQueue = <<>>
    /\ recreations = 0
    /\ instance = "none"
    /\ surface = "none"
    /\ device = NoDevice
    /\ chains = [h \in 1..MaxSwapchains |-> NoChain]
    /\ swapchain = 0
    /\ new_swapchain = 0
    /\ physical_devices = 0
    /\ pdevice = 0
    /\ queue_familie_properties = <<>>
    /\ selected_device = None
    /\ probed = <<>>
    /\ available_layers = None
    /\ panic_msg = NoPanic
    /\ waited = "none"
    /\ inputs = NoInputs
    /\ info = NoInfo

\* A panic: inside Context::new it unwinds the locals of Context::new, inside
\* recreate_swapchain it leaves the function with the context untouched.
\* VulkanBase::new has no local with a destructor: its panic just leaves it.
Panic(msg) ==
    /\ result' = "Panic"
    /\ panic_msg' = msg
    /\ ret' = "none"
    /\ CASE mode = "new" -> pc' = "Unwind" /\ dropQueue' = DropCalls(UnwindOrder(Locals))
         [] mode = "recreate" -> pc' = "RecreatePanicked" /\ dropQueue' = <<>>
         [] mode = "base" -> pc' = "BaseFailed" /\ dropQueue' = <<>>

\* ------------------------------------------------------------ Context::new
\* Instance::new: the requested layers are looked up first (a missing one
\* panics), then create_instance either yields a handle or an Err.
InstanceNew ==
    /\ pc = "Start"
    /\ \E loaded \in BOOLEAN, available \in SUBSET KnownLayers, created \in BOOLEAN :
          IF ~loaded
          THEN \* Entry::load, the extension list or the layer enumeration is an Err
               /\ ret' = "Err"
               /\ pc' = "ExpectInstance"
               /\ UNCHANGED <<result, dropQueue, calls, instance, available_layers, panic_msg>>
          ELSE /\ available_layers' = Some(available)
               /\ IF first_missing(INSTANCE_LAYERS, available) # None
                  THEN /\ Panic(LayerPanic("Warning: Layer not available",
                                           first_missing(INSTANCE_LAYERS, available)[1]))
                       /\ UNCHANGED <<calls, instance>>
                  ELSE IF created
                  THEN /\ instance' = "live"
                       /\ calls' = Append(calls, "create_instance")
                       /\ ret' = "Ok"
                       /\ pc' = "ExpectInstance"
                       /\ UNCHANGED <<result, dropQueue, panic_msg>>
                  ELSE /\ ret' = "Err"
                       /\ pc' = "ExpectInstance"
                       /\ UNCHANGED <<result, dropQueue, calls, instance, panic_msg>>
    /\ UNCHANGED <<mode, recreations, surface, device, chains, swapchain, new_swapchain>>
    /\ UNCHANGED <<scan, waited, nego>>

\* Surface::new: fetch the window handles and create the surface.
SurfaceNew ==
    /\ pc = "SurfaceNew"
    /\ \E created \in BOOLEAN :
          IF created
          THEN /\ surface' = "live"
               /\ calls' = Append(calls, "create_surface")
               /\ ret' = "Ok"
          ELSE /\ ret' = "Err"
               /\ UNCHANGED <<surface, calls>>
    /\ pc' = "ExpectSurface"
    /\ UNCHANGED <<mode, result, dropQueue, recreations,
                   instance, device, chains, swapchain, new_swapchain>>
    /\ UNCHANGED <<scan, aux, nego>>

\* Device::new, enumerate_physical_devices and the is_empty test.
DeviceEnumerate ==
    /\ pc = "DeviceEnumerate"
    /\ \E enumerated \in BOOLEAN, n \in 0..MaxDevices :
          IF enumerated /\ n > 0
          THEN /\ physical_devices' = n
               /\ pdevice' = 1
               /\ pc' = "DeviceScan"
               /\ ret' = "none"
          ELSE /\ physical_devices' = IF enumerated THEN n ELSE 0
               /\ pdevice' = 0
               /\ ret' = "Err"
               /\ pc' = "ExpectDevice"
    /\ selected_device' = None
    /\ queue_familie_properties' = <<>>
    /\ probed' = <<>>
    /\ UNCHANGED <<mode, result, calls, dropQueue, recreations>>
    /\ UNCHANGED <<objs, aux, nego>>

\* Device::new, one iteration of the loop over the physical devices, and the
\* ok_or that follows the loop when it runs out of devices.
DeviceScan ==
    /\ pc = "DeviceScan"
    /\ \E fams \in FamilyLists :
          LET g == graphics_queue(fams)
              p == present_queue(fams)
          IN  /\ queue_familie_properties' = fams
              /\ probed' = Append(probed,
                     <<\E k \in 1..Len(fams) : fams[k].graphics,
                       \E k \in 1..Len(fams) : fams[k].present = "yes">>)
              /\ IF Accept(g, p)
                 THEN /\ selected_device' = Some(<<pdevice, g[1], p[1]>>)
                      /\ pc' = "DeviceCreate"
                      /\ UNCHANGED <<pdevice, ret>>
                 ELSE IF pdevice < physical_devices
                 THEN /\ pdevice' = pdevice + 1
                      /\ UNCHANGED <<selected_device, pc, ret>>
                 ELSE /\ ret' = "Err"
                      /\ pc' = "ExpectDevice"
                      /\ UNCHANGED <<selected_device, pdevice>>
    /\ UNCHANGED <<mode, result, calls, dropQueue, recreations, physical_devices>>
    /\ UNCHANGED <<objs, aux, nego>>

\* Device::new, create_device on the selected device and the two get_device_queue.
DeviceCreate ==
    /\ pc = "DeviceCreate"
    /\ \E created \in BOOLEAN :
          IF created
          THEN /\ device' = [state |-> "live",
                             physical_device |-> selected_device[1][1],
                             graphics_queue_family_idx |-> selected_device[1][2],
                             present_queue_family_idx |-> selected_device[1][3],
                             queue_create_infos |->
                                 unique_queue_families(selected_device[1][2],
                                                       selected_device[1][3]),
                             graphics_queue |-> get_device_queue(selected_device[1][2], 0),
                             present_queue |-> get_device_queue(selected_device[1][3], 0)]
               /\ calls' = Append(calls, "create_device")
               /\ ret' = "Ok"
          ELSE /\ ret' = "Err"
               /\ UNCHANGED <<device, calls>>
    /\ pc' = "ExpectDevice"
    /\ UNCHANGED <<mode, result, dropQueue, recreations,
                   instance, surface, chains, swapchain, new_swapchain>>
    /\ UNCHANGED <<scan, aux, nego>>

\* Context::new, the expect after each constructor: Ok moves on to the next
\* constructor (or builds the Context), Err panics.
ContextNewExpect ==
    /\ mode = "new"
    /\ pc \in {"ExpectInstance", "ExpectSurface", "ExpectDevice", "ExpectSwapchain"}
    /\ IF ret = "Ok"
       THEN /\ pc' = CASE pc = "ExpectInstance" -> "SurfaceNew"
                       [] pc = "ExpectSurface" -> "DeviceEnumerate"
                       [] pc = "ExpectDevice" -> "SwapchainQuery"
                       [] pc = "ExpectSwapchain" -> "Ready"
            /\ result' = IF pc = "ExpectSwapchain" THEN "Ok" ELSE result
            /\ swapchain' = IF pc = "ExpectSwapchain" THEN new_swapchain ELSE swapchain
            /\ new_swapchain' = IF pc = "ExpectSwapchain" THEN 0 ELSE new_swapchain
            /\ ret' = "none"
            /\ UNCHANGED <<dropQueue, panic_msg>>
       ELSE /\ Panic(PanicMsg(CASE pc = "ExpectInstance" -> "Instance Error"
                                [] pc = "ExpectSurface" -> "Surface Error"
                                [] pc = "ExpectDevice" -> "Device Error"
                                [] pc = "ExpectSwapchain" -> "Swapchain Error"))
            /\ UNCHANGED <<swapchain, new_swapchain>>
    \* the locals of Device::new are gone once it has returned
    /\ physical_devices' = 0
    /\ pdevice' = 0
    /\ queue_familie_properties' = <<>>
    /\ selected_device' = None
    /\ probed' = <<>>
    /\ available_layers' = None
    /\ UNCHANGED <<mode, calls, recreations, instance, surface, device, chains>>
    /\ UNCHANGED <<waited, nego>>

\* ---------------------------------------------------------- Swapchain::new
\* the handle the next create_swapchain yields: the first one never used
FreshHandle == CHOOSE h \in 1..MaxSwapchains :
                   /\ ~chains[h].created
                   /\ \A g \in 1..(h - 1) : chains[g].created

\* mutant: every view is made of the last image
last_image == chains[new_swapchain].images
\* the map over images: the next view is made of the next image, in order
next_image == Len(chains[new_swapchain].image_views) + 1

\* mutant: the views count as complete once the first one exists
FirstViewCreated == Len(chains[new_swapchain].image_views) >= 1
\* the map over images has produced a view for every image
AllViewsCreated == Len(chains[new_swapchain].image_views) = chains[new_swapchain].images

\* Swapchain::new, the three surface queries (each may be an Err) and the choice
\* of the surface format, which panics when the preferred pair is not offered.
SwapchainQuery ==
    /\ pc = "SwapchainQuery"
    /\ \E queried \in BOOLEAN, surface_formats \in FormatLists :
          IF ~queried
          THEN /\ ret' = "Err"
               /\ pc' = "ExpectSwapchain"
               /\ UNCHANGED <<result, dropQueue, panic_msg>>
          ELSE IF format_of(surface_formats) = None
          THEN Panic(PanicMsg("Not supported format found"))
          ELSE /\ pc' = "SwapchainCreate"
               /\ UNCHANGED <<result, ret, dropQueue, panic_msg>>
    /\ UNCHANGED <<mode, calls, recreations>>
    /\ UNCHANGED objs
    /\ UNCHANGED <<scan, available_layers, waited, nego>>

\* Swapchain::new, create_swapchain with the old handle (if any) as a hint.
SwapchainCreate ==
    /\ pc = "SwapchainCreate"
    /\ \E created \in BOOLEAN :
          IF created
          THEN /\ chains' = [chains EXCEPT ![FreshHandle] =
                                [created |-> TRUE, destroys |-> 0, images |-> 0,
                                 image_views |-> <<>>, view_images |-> <<>>,
                                 old_swapchain |-> swapchain,
                                 image_sharing_mode |->
                                     sharing(device.graphics_queue_family_idx,
                                             device.present_queue_family_idx).mode,
                                 queue_family_indices |->
                                     sharing(device.graphics_queue_family_idx,
                                             device.present_queue_family_idx).indices]]
               /\ new_swapchain' = FreshHandle
               /\ calls' = Append(calls, "create_swapchain")
               /\ pc' = "SwapchainImages"
               /\ UNCHANGED ret
          ELSE /\ ret' = "Err"
               /\ pc' = "ExpectSwapchain"
               /\ UNCHANGED <<chains, new_swapchain, calls>>
    /\ UNCHANGED <<mode, result, dropQueue, recreations,
                   instance, surface, device, swapchain>>
    /\ UNCHANGED <<scan, aux, nego>>

\* Swapchain::new, get_swapchain_images; on Err the function returns and the
\* handle it holds (a plain value without destructor) stays with the driver.
SwapchainImages ==
    /\ pc = "SwapchainImages"
    /\ \E fetched \in BOOLEAN, n \in 1..MaxImages :
          IF fetched
          THEN /\ chains' = [chains EXCEPT ![new_swapchain].images = n]
               /\ calls' = Append(calls, "get_swapchain_images")
               /\ pc' = "SwapchainViews"
               /\ UNCHANGED ret
          ELSE /\ ret' = "Err"
               /\ pc' = "ExpectSwapchain"
               /\ UNCHANGED <<chains, calls>>
    /\ UNCHANGED <<mode, result, dropQueue, recreations,
                   instance, surface, device, swapchain, new_swapchain>>
    /\ UNCHANGED <<scan, aux, nego>>

\* Swapchain::new, create_image_view for the next image; collect stops at the
\* first Err and the function returns it, the views made so far stay behind.
SwapchainView ==
    /\ pc = "SwapchainViews"
    /\ ~AllViewsCreated
    /\ \E created \in BOOLEAN :
          IF created
          THEN /\ chains' = [chains EXCEPT
                                ![new_swapchain].view_images = Append(@, next_image),
                                ![new_swapchain].image_views = Append(@, 0)]
               /\ calls' = Append(calls, "create_image_view")
               /\ UNCHANGED <<pc, ret>>
          ELSE /\ ret' = "Err"
               /\ pc' = "ExpectSwapchain"
               /\ UNCHANGED <<chains, calls>>
    /\ UNCHANGED <<mode, result, dropQueue, recreations,
                   instance, surface, device, swapchain, new_swapchain>>
    /\ UNCHANGED <<scan, aux, nego>>

\* Swapchain::new, Ok(Self { .. }) once every view exists.
SwapchainOk ==
    /\ pc = "SwapchainViews"
    /\ AllViewsCreated
    /\ ret' = "Ok"
    /\ pc' = "ExpectSwapchain"
    /\ UNCHANGED <<mode, result, calls, dropQueue, recreations>>
    /\ UNCHANGED objs
    /\ UNCHANGED <<scan, aux, nego>>

\* ------------------------------------------------ Context::recreate_swapchain
\* entry of recreate_swapchain: it goes straight into Swapchain::new
recreate_swapchain ==
    /\ pc = "Ready"
    /\ recreations < MaxRecreate
    /\ recreations' = recreations + 1
    /\ mode' = "recreate"
    /\ result' = "none"
    /\ calls' = <<>>
    /\ pc' = "SwapchainQuery"
    /\ UNCHANGED <<ret, dropQueue>>
    /\ UNCHANGED objs
    /\ UNCHANGED <<scan, aux, nego>>

\* the expect on the result of Swapchain::new: Err panics, Ok goes on to the
\* assignment, which first drops the Swapchain the field holds
RecreateExpect ==
    /\ mode = "recreate"
    /\ pc = "ExpectSwapchain"
    /\ IF ret = "Ok"
       THEN /\ pc' = "RecreateAssign"
            /\ dropQueue' = AssignDrops
            /\ ret' = "none"
            /\ UNCHANGED <<result, panic_msg>>
       ELSE Panic(PanicMsg("Swapchain Recreation Error"))
    /\ UNCHANGED <<mode, calls, recreations>>
    /\ UNCHANGED objs
    /\ UNCHANGED <<scan, available_layers, waited, nego>>

\* the new value is moved into self.swapchain and the call returns Ok(())
RecreateInstall ==
    /\ pc = "RecreateAssign"
    /\ dropQueue = <<>>
    /\ swapchain' = new_swapchain
    /\ new_swapchain' = 0
    /\ result' = "Ok"
    /\ pc' = "Ready"
    /\ UNCHANGED <<mode, ret, calls, dropQueue, recreations,
                   instance, surface, device, chains>>
    /\ UNCHANGED <<scan, aux, nego>>

\* ------------------------------------------------------------- destructors
\* Destructors run while a panic unwinds Context::new, while the assignment in
\* recreate_swapchain drops the old Swapchain, and while a Context is dropped.
Dropping == pc \in {"Unwind", "RecreateAssign", "ContextDrop", "BaseDrop"}

NextCall(c) == Dropping /\ dropQueue # <<>> /\ Head(dropQueue).call = c

\* the process dies inside the driver call it has just issued
Crash(c) ==
    /\ pc' = "Crashed"
    /\ calls' = Append(calls, c)
    /\ UNCHANGED <<mode, result, ret, dropQueue, recreations>>
    /\ UNCHANGED objs
    /\ UNCHANGED <<scan, aux, nego>>

\* Instance::drop: destroy_instance
destroy_instance ==
    /\ NextCall("destroy_instance")
    /\ \E o \in Outcomes(instance = "live" /\ surface # "live"
                         /\ device.state # "live" /\ ~ChildrenOfDevice) :
          IF o = "crash" THEN Crash("destroy_instance")
          ELSE /\ instance' = "destroyed"
               /\ calls' = Append(calls, "destroy_instance")
               /\ dropQueue' = Tail(dropQueue)
               /\ UNCHANGED <<pc, mode, result, ret, recreations,
                              surface, device, chains, swapchain, new_swapchain>>
               /\ UNCHANGED <<scan, aux, nego>>

\* Surface::drop: destroy_surface through the surface loader of the instance
destroy_surface ==
    /\ NextCall("destroy_surface")
    /\ \E o \in Outcomes(surface = "live" /\ instance = "live" /\ LiveChains = {}) :
          IF o = "crash" THEN Crash("destroy_surface")
          ELSE /\ surface' = "destroyed"
               /\ calls' = Append(calls, "destroy_surface")
               /\ dropQueue' = Tail(dropQueue)
               /\ UNCHANGED <<pc, mode, result, ret, recreations,
                              instance, device, chains, swapchain, new_swapchain>>
               /\ UNCHANGED <<scan, aux, nego>>

\* Device::drop, first statement: device_wait_idle, its result ignored
device_wait_idle ==
    /\ NextCall("device_wait_idle")
    /\ \E o \in Outcomes(device.state = "live" /\ instance = "live") :
          IF o = "crash" THEN Crash("device_wait_idle")
          ELSE /\ calls' = Append(calls, "device_wait_idle")
               /\ dropQueue' = Tail(dropQueue)
               \* let _ = ..: the wait may come back with an Err, which is dropped
               /\ \E r \in {"Ok", "Err"} : waited' = r
               /\ UNCHANGED <<pc, mode, result, ret, recreations>>
               /\ UNCHANGED objs
               /\ UNCHANGED <<scan, available_layers, panic_msg, nego>>

\* Device::drop, second statement: destroy_device
destroy_device ==
    /\ NextCall("destroy_device")
    /\ \E o \in Outcomes(device.state = "live" /\ instance = "live" /\ ~ChildrenOfDevice) :
          IF o = "crash" THEN Crash("destroy_device")
          ELSE /\ device' = [device EXCEPT !.state = "destroyed"]
               /\ calls' = Append(calls, "destroy_device")
               /\ dropQueue' = Tail(dropQueue)
               /\ UNCHANGED <<pc, mode, result, ret, recreations,
                              instance, surface, chains, swapchain, new_swapchain>>
               /\ UNCHANGED <<scan, aux, nego>>

\* Swapchain::drop, the loop: destroy_image_view on the next view of self
destroy_image_view ==
    /\ NextCall("destroy_image_view")
    /\ LET i == Head(dropQueue).arg
       IN \E o \in Outcomes(device.state = "live"
                            /\ chains[swapchain].image_views[i] = 0) :
             IF o = "crash" THEN Crash("destroy_image_view")
             ELSE /\ chains' = [chains EXCEPT ![swapchain].image_views[i] = @ + 1]
                  /\ calls' = Append(calls, "destroy_image_view")
                  /\ dropQueue' = Tail(dropQueue)
                  /\ UNCHANGED <<pc, mode, result, ret, recreations,
                                 instance, surface, device, swapchain, new_swapchain>>
                  /\ UNCHANGED <<scan, aux, nego>>

\* Swapchain::drop, after the loop: destroy_swapchain on the handle of self
destroy_swapchain ==
    /\ NextCall("destroy_swapchain")
    /\ \E o \in Outcomes(device.state = "live" /\ chains[swapchain].destroys = 0) :
          IF o = "crash" THEN Crash("destroy_swapchain")
          ELSE /\ chains' = [chains EXCEPT ![swapchain].destroys = @ + 1]
               /\ calls' = Append(calls, "destroy_swapchain")
               /\ dropQueue' = Tail(dropQueue)
               /\ UNCHANGED <<pc, mode, result, ret, recreations,
                              instance, surface, device, swapchain, new_swapchain>>
               /\ UNCHANGED <<scan, aux, nego>>

\* the panic of Context::new leaves the function: the caller sees it
UnwindDone ==
    /\ pc = "Unwind"
    /\ dropQueue = <<>>
    /\ pc' = "NewPanicked"
    /\ UNCHANGED <<mode, result, ret, calls, dropQueue, recreations>>
    /\ UNCHANGED objs
    /\ UNCHANGED <<scan, aux, nego>>

\* The owner lets go of a Context (at the end of its life, or while the panic
\* of recreate_swapchain unwinds the owner): the fields drop in declaration order.
ContextDrop ==
    /\ pc \in {"Ready", "RecreatePanicked"}
    /\ pc' = "ContextDrop"
    /\ dropQueue' = DropCalls(ContextFields)
    /\ calls' = <<>>
    /\ UNCHANGED <<mode, result, ret, recreations>>
    /\ UNCHANGED objs
    /\ UNCHANGED <<scan, aux, nego>>

\* the last field has been dropped
ContextDropDone ==
    /\ pc = "ContextDrop"
    /\ dropQueue = <<>>
    /\ pc' = "Destroyed"
    /\ UNCHANGED <<mode, result, ret, calls, dropQueue, recreations>>
    /\ UNCHANGED objs
    /\ UNCHANGED <<scan, aux, nego>>

\* ------------------------------------------------------ main.rs, VulkanBase
\* VulkanBase::new up to create_instance: the layer lookup, then the instance.
\* Every failure but the missing layer is an Err the function returns with `?`.
BaseInstance ==
    /\ pc = "BaseStart"
    /\ \E loaded \in BOOLEAN, available \in SUBSET KnownLayers, created \in BOOLEAN :
          IF ~loaded
          THEN /\ result' = "Err"
               /\ pc' = "BaseFailed"
               /\ UNCHANGED <<ret, dropQueue, calls, instance, available_layers, panic_msg>>
          ELSE /\ available_layers' = Some(available)
               /\ IF first_missing(BASE_INSTANCE_LAYERS, available) # None
                  THEN /\ Panic(LayerPanic("Layer not supported",
                                           first_missing(BASE_INSTANCE_LAYERS, available)[1]))
                       /\ UNCHANGED <<calls, instance>>
                  ELSE IF created
                  THEN /\ instance' = "live"
                       /\ calls' = Append(calls, "create_instance")
                       /\ pc' = "BaseEnumerate"
                       /\ UNCHANGED <<result, ret, dropQueue, panic_msg>>
                  ELSE /\ result' = "Err"
                       /\ pc' = "BaseFailed"
                       /\ UNCHANGED <<ret, dropQueue, calls, instance, panic_msg>>
    /\ UNCHANGED <<mode, recreations, surface, device, chains, swapchain, new_swapchain>>
    /\ UNCHANGED <<scan, waited, nego>>

\* VulkanBase::new: the first physical device and its first graphics family.
\* An Err here returns with the instance created and never destroyed.
BaseSelectDevice ==
    /\ pc = "BaseEnumerate"
    /\ \E enumerated \in BOOLEAN, n \in 0..MaxDevices, fams \in FamilyLists :
          IF enumerated /\ n > 0 /\ graphics_queue(fams) # None
          THEN /\ physical_devices' = n
               /\ pdevice' = 1
               /\ queue_familie_properties' = fams
               /\ selected_device' = Some(<<1, graphics_queue(fams)[1]>>)
               /\ pc' = "BaseCreate"
               /\ UNCHANGED result
          ELSE /\ result' = "Err"
               /\ pc' = "BaseFailed"
               /\ UNCHANGED <<physical_devices, pdevice, queue_familie_properties,
                              selected_device>>
    /\ available_layers' = None
    /\ UNCHANGED <<mode, ret, calls, dropQueue, recreations, probed>>
    /\ UNCHANGED <<objs, panic_msg, waited, nego>>

\* VulkanBase::new: create_device, get_device_queue, Ok(Self {..})
BaseCreateDevice ==
    /\ pc = "BaseCreate"
    /\ \E created \in BOOLEAN :
          IF created
          THEN /\ device' = [state |-> "live",
                             physical_device |-> selected_device[1][1],
                             graphics_queue_idx |-> selected_device[1][2],
                             queue_create_infos |-> <<selected_device[1][2]>>,
                             queue |-> get_device_queue(selected_device[1][2], 0)]
               /\ calls' = Append(calls, "create_device")
               /\ result' = "Ok"
               /\ pc' = "BaseReady"
          ELSE /\ result' = "Err"
               /\ pc' = "BaseFailed"
               /\ UNCHANGED <<device, calls>>
    /\ physical_devices' = 0
    /\ pdevice' = 0
    /\ queue_familie_properties' = <<>>
    /\ selected_device' = None
    /\ UNCHANGED <<mode, ret, dropQueue, recreations, probed,
                   instance, surface, chains, swapchain, new_swapchain>>
    /\ UNCHANGED <<aux, nego>>

\* the VulkanBase value goes out of scope: VulkanBase::drop
BaseDrop ==
    /\ pc = "BaseReady"
    /\ pc' = "BaseDrop"
    /\ calls' = <<>>
    /\ dropQueue' = DropVulkanBase
    /\ UNCHANGED <<mode, result, ret, recreations>>
    /\ UNCHANGED objs
    /\ UNCHANGED <<scan, aux, nego>>

BaseDropDone ==
    /\ pc = "BaseDrop"
    /\ dropQueue = <<>>
    /\ pc' = "BaseDestroyed"
    /\ UNCHANGED <<mode, result, ret, calls, dropQueue, recreations>>
    /\ UNCHANGED objs
    /\ UNCHANGED <<scan, aux, nego>>

\* -------------------------------------- Swapchain::new, the values it picks
\* Swapchain::new entered on a live instance, surface and device, with what
\* the surface, the driver and the window report drawn from NegotiateInputs.
NegotiateDevice ==
    [state |-> "live", physical_device |-> 1,
     graphics_queue_family_idx |-> 0, present_queue_family_idx |-> 0,
     queue_create_infos |-> unique_queue_families(0, 0),
     graphics_queue |-> get_device_queue(0, 0),
     present_queue |-> get_device_queue(0, 0)]

InitNegotiate ==
    /\ mode = "negotiate"
    /\ pc = "Negotiate"
    /\ result = "none"
    /\ ret = "none"
    /\ calls = <<>>
    /\ dropQueue = <<>>
    /\ recreations = 0
    /\ instance = "live"
    /\ surface = "live"
    /\ device = NegotiateDevice
    /\ chains = [h \in 1..MaxSwapchains |-> NoChain]
    /\ swapchain = 0
    /\ new_swapchain = 0
    /\ physical_devices = 0
    /\ pdevice = 0
    /\ queue_familie_properties = <<>>
    /\ selected_device = None
    /\ probed = <<>>
    /\ available_layers = None
    /\ panic_msg = NoPanic
    /\ waited = "none"
    /\ inputs \in NegotiateInputs
    /\ info = NoInfo

\* Swapchain::new from the format choice to image_count, before
\* create_swapchain: the four values are picked in the order of the code,
\* and the first panic on the way ends the function.
Negotiate ==
    /\ pc = "Negotiate"
    /\ LET failure ==
             IF format_of(inputs.surface_formats) = None
             THEN "Not supported format found"
             ELSE IF clamp_panics(inputs)
             THEN "assertion failed: min <= max"
             ELSE IF add_overflows(inputs) /\ inputs.build = "debug"
             THEN "attempt to add with overflow"
             ELSE ""
       IN IF failure # ""
          THEN /\ result' = "Panic"
               /\ panic_msg' = PanicMsg(failure)
               /\ pc' = "NegotiatePanicked"
               /\ UNCHANGED info
          ELSE /\ info' = [format |-> format_of(inputs.surface_formats)[1],
                           present_mode |-> present_mode_of(inputs.present_modes),
                           extent |-> extent_of(inputs),
                           image_count |-> image_count_of(inputs)]
               /\ result' = "Ok"
               /\ pc' = "Negotiated"
               /\ UNCHANGED panic_msg
    /\ UNCHANGED <<mode, ret, calls, dropQueue, recreations>>
    /\ UNCHANGED objs
    /\ UNCHANGED <<scan, available_layers, waited, inputs>>

NextNegotiate == Negotiate

SpecNegotiate == InitNegotiate /\ [][NextNegotiate]_vars

\* ------------------------------------------------------------ specification
Next ==
    \/ InstanceNew
    \/ SurfaceNew
    \/ DeviceEnumerate
    \/ DeviceScan
    \/ DeviceCreate
    \/ ContextNewExpect
    \/ SwapchainQuery
    \/ SwapchainCreate
    \/ SwapchainImages
    \/ SwapchainView
    \/ SwapchainOk
    \/ recreate_swapchain
    \/ RecreateExpect
    \/ RecreateInstall
    \/ destroy_instance
    \/ destroy_surface
    \/ device_wait_idle
    \/ destroy_device
    \/ destroy_image_view
    \/ destroy_swapchain
    \/ UnwindDone
    \/ ContextDrop
    \/ ContextDropDone
    \/ BaseInstance
    \/ BaseSelectDevice
    \/ BaseCreateDevice
    \/ BaseDrop
    \/ BaseDropDone

Spec == Init /\ [][Next]_vars

\* ------------------------------------------------------------------ claims
IsPrefix(a, b) == Len(a) <= Len(b) /\ SubSeq(b, 1, Len(a)) = a

Destroys == {"destroy_image_view", "destroy_swapchain", "destroy_device",
             "destroy_surface", "destroy_instance"}
DestroyCalls == SelectSeq(calls, LAMBDA c : c \in Destroys)

\* a swapchain whose handle, images and views all exist and are alive
Complete(h) ==
    /\ h \in LiveChains
    /\ chains[h].images > 0
    /\ Len(chains[h].image_views) = chains[h].images
    /\ \A i \in 1..Len(chains[h].image_views) : chains[h].image_views[i] = 0

\* the positions inside Swapchain::new and the expect on its result
Building == {"SwapchainQuery", "SwapchainCreate", "SwapchainImages",
             "SwapchainViews", "ExpectSwapchain"}

\* C1: dropping a fully constructed Context destroys the driver objects in the
\* order image views, swapchain handle, logical device, surface, instance, and
\* in no other order.
ReverseOrder ==
    [i \in 1..Len(chains[swapchain].image_views) |-> "destroy_image_view"]
        \o <<"destroy_swapchain", "destroy_device", "destroy_surface", "destroy_instance">>
C1_TeardownInReverseOrder ==
    /\ pc = "ContextDrop" => IsPrefix(DestroyCalls, ReverseOrder)
    /\ pc = "Destroyed" => DestroyCalls = ReverseOrder

\* C2: in every state the instance is not destroyed while a surface, a logical
\* device or a swapchain made from it exists, and the logical device is not
\* destroyed while a swapchain or an image view made from it exists.
C2_ParentsOutliveChildren ==
    /\ instance = "destroyed" =>
          surface # "live" /\ device.state # "live" /\ LiveChains = {}
    /\ device.state = "destroyed" => LiveChains = {} /\ LiveViews = {}

\* C3: when building the new swapchain fails inside recreate_swapchain, the
\* call hands its caller an Err and the context is ready again with the
\* previous swapchain and its views installed and alive, so that
\* recreate_swapchain can be called again.
C3_FailedRecreateIsRecoverable ==
    (mode = "recreate" /\ result \notin {"none", "Ok"}) =>
        /\ result = "Err"
        /\ pc = "Ready"
        /\ Complete(swapchain)

\* C4: whenever the context is ready (after Context::new and any number of
\* successful recreate_swapchain calls) exactly one swapchain handle is alive,
\* the installed one, and the image views alive are exactly its views.
C4_OneSwapchainLive ==
    pc = "Ready" =>
        /\ LiveChains = {swapchain}
        /\ LiveViews = {swapchain} \X (1..chains[swapchain].images)
C4_Witness ==
    pc = "Ready" /\ recreations = 2 /\ result = "Ok" /\ chains[swapchain].images = 2

\* C5: every destroy_image_view and destroy_swapchain of an operation comes
\* after a device_wait_idle of that operation and before any destroy_device.
C5_WaitIdleBeforeSwapchainDestroy ==
    \A i \in 1..Len(calls) :
        calls[i] \in {"destroy_image_view", "destroy_swapchain"} =>
            /\ \E j \in 1..(i - 1) : calls[j] = "device_wait_idle"
            /\ \A k \in 1..(i - 1) : calls[k] # "destroy_device"

\* C6: when a step of Context::new has failed and the failure is with the
\* caller, every component constructed before it has been destroyed, in the
\* reverse of the order of creation; and a Context a caller holds has all four.
DestroyOf(c) ==
    CASE c = "create_instance" -> "destroy_instance"
      [] c = "create_surface" -> "destroy_surface"
      [] c = "create_device" -> "destroy_device"
ComponentsCreated ==
    SelectSeq(calls, LAMBDA c : c \in {"create_instance", "create_surface", "create_device"})
ComponentsDestroyed ==
    SelectSeq(calls, LAMBDA c : c \in {"destroy_instance", "destroy_surface", "destroy_device"})
C6_NewRollsBack ==
    /\ pc = "NewPanicked" =>
          /\ instance # "live" /\ surface # "live" /\ device.state # "live"
          /\ ComponentsDestroyed =
                Reverse([i \in 1..Len(ComponentsCreated) |-> DestroyOf(ComponentsCreated[i])])
          /\ swapchain = 0
    /\ pc = "Ready" =>
          /\ instance = "live" /\ surface = "live" /\ device.state = "live"
          /\ Complete(swapchain)
C6_Witness ==
    /\ pc = "NewPanicked"
    /\ ComponentsDestroyed = <<"destroy_device", "destroy_surface", "destroy_instance">>

\* C7: when create_image_view fails inside Swapchain::new, the call returns an
\* Err and neither the swapchain handle made by the call nor any of the views
\* made by it is alive.
C7_FailedViewRollsBack ==
    (pc = "ExpectSwapchain" /\ ret = "Err" /\ new_swapchain # 0
        /\ chains[new_swapchain].images > 0) =>
        /\ new_swapchain \notin LiveChains
        /\ \A v \in LiveViews : v[1] # new_swapchain

\* C8: inside recreate_swapchain the installed swapchain stays the old,
\* untouched one while Swapchain::new runs, and the old handle and views are
\* destroyed, and the new one installed, only when the new swapchain has its
\* handle, its images and every view.
OldTouched ==
    \/ chains[swapchain].destroys > 0
    \/ \E i \in 1..Len(chains[swapchain].image_views) : chains[swapchain].image_views[i] > 0
C8_InstallAfterComplete ==
    mode = "recreate" =>
        /\ pc \in Building => swapchain # new_swapchain /\ Complete(swapchain)
        /\ (pc = "RecreateAssign" /\ OldTouched) => Complete(new_swapchain)
        /\ pc = "RecreateAssign" => swapchain # new_swapchain
        /\ pc = "Ready" => Complete(swapchain)
C8_Witness ==
    pc = "RecreateAssign" /\ chains[swapchain].destroys = 1 /\ chains[new_swapchain].images = 2

\* C9: no swapchain handle and no image view is ever destroyed twice, and once
\* the context is torn down every handle and view that was created has been
\* destroyed exactly once.
C9_DestroyedExactlyOnce ==
    /\ \A h \in 1..MaxSwapchains :
          /\ chains[h].destroys <= 1
          /\ \A i \in 1..Len(chains[h].image_views) : chains[h].image_views[i] <= 1
    /\ pc = "Destroyed" =>
          \A h \in 1..MaxSwapchains :
              chains[h].created =>
                 /\ chains[h].destroys = 1
                 /\ \A i \in 1..Len(chains[h].image_views) : chains[h].image_views[i] = 1

\* C10: Device::new selects the first enumerated device that has a graphics
\* family and a family that can present, without looking at a later device;
\* when no device has both it returns an Err and creates no logical device.
Suitable(i) == probed[i][1] /\ probed[i][2]
C10_FirstSuitableDevice ==
    /\ pc = "DeviceScan" => \A j \in 1..Len(probed) : ~Suitable(j)
    /\ pc = "DeviceCreate" =>
          /\ selected_device # None
          /\ Len(probed) = selected_device[1][1]
          /\ Suitable(selected_device[1][1])
          /\ \A j \in 1..(selected_device[1][1] - 1) : ~Suitable(j)
    /\ (pc = "ExpectDevice" /\ ret = "Ok") =>
          /\ selected_device # None
          /\ device.state = "live"
          /\ device.physical_device = selected_device[1][1]
          /\ Suitable(device.physical_device)
          /\ \A j \in 1..(device.physical_device - 1) : ~Suitable(j)
    /\ (pc = "ExpectDevice" /\ \A j \in 1..Len(probed) : ~Suitable(j)) =>
          /\ ret = "Err"
          /\ selected_device = None
          /\ Len(probed) = physical_devices
          /\ device.state = "none"
          /\ \A i \in 1..Len(calls) : calls[i] # "create_device"
C10_Witness ==
    /\ pc = "ExpectDevice" /\ ret = "Ok"
    /\ device.physical_device = 2

\* C13: the swapchain is created with concurrent sharing exactly when the
\* graphics and present family indices of the device differ, and then with the
\* index list [graphics, present]; with equal indices the sharing is exclusive
\* and no index list is passed.
C13_SharingMode ==
    \A h \in 1..MaxSwapchains :
        chains[h].created =>
            LET g == device.graphics_queue_family_idx
                p == device.present_queue_family_idx
            IN  /\ (chains[h].image_sharing_mode = "CONCURRENT") <=> (g # p)
                /\ g # p => chains[h].queue_family_indices = <<g, p>>
                /\ g = p => /\ chains[h].image_sharing_mode = "EXCLUSIVE"
                            /\ chains[h].queue_family_indices = <<>>
C13_Witness ==
    /\ pc = "Ready"
    /\ chains[swapchain].image_sharing_mode = "CONCURRENT"
    /\ chains[swapchain].queue_family_indices = <<0, 1>>

\* C16: Device::new asks for one queue per distinct index among the graphics
\* and the present family: one request when the two are equal, two with the
\* graphics index first when they differ, and never the same index twice.
C16_QueueRequestsDistinct ==
    (mode # "base" /\ device.state # "none") =>
        LET g == device.graphics_queue_family_idx
            p == device.present_queue_family_idx
            q == device.queue_create_infos
        IN  /\ Len(q) = Cardinality({g, p})
            /\ {q[i] : i \in 1..Len(q)} = {g, p}
            /\ q[1] = g
            /\ \A i, j \in 1..Len(q) : q[i] = q[j] => i = j
C16_Witness ==
    /\ pc = "ExpectDevice" /\ ret = "Ok"
    /\ device.graphics_queue_family_idx = 1
    /\ device.present_queue_family_idx = 1
    /\ device.queue_create_infos = <<1>>

\* C18: every Swapchain that Swapchain::new returns, and so the one a ready
\* context holds, has as many image views as images, the i-th view being a
\* view of the i-th image.
ViewPerImage(h) ==
    /\ Len(chains[h].image_views) = chains[h].images
    /\ Len(chains[h].view_images) = chains[h].images
    /\ \A i \in 1..chains[h].images : chains[h].view_images[i] = i
C18_ViewPerImage ==
    /\ (pc = "ExpectSwapchain" /\ ret = "Ok") => ViewPerImage(new_swapchain)
    /\ pc \in {"RecreateAssign", "Ready"} => ViewPerImage(swapchain)
    /\ pc = "RecreateAssign" => ViewPerImage(new_swapchain)
C18_Witness ==
    /\ pc = "Ready" /\ recreations = 1 /\ result = "Ok"
    /\ chains[swapchain].images = 2
    /\ chains[swapchain].view_images = <<1, 2>>

\* C19: no step of recreate_swapchain, whether the call ends in success or in
\* failure, changes the instance, the surface or the device (physical device,
\* logical device, family indices, queue handles), and the call issues no
\* create or destroy call for any of them.
RecreatePositions == Building \cup {"RecreateAssign", "Ready", "RecreatePanicked"}
ComponentCalls == {"create_instance", "create_surface", "create_device",
                   "destroy_instance", "destroy_surface", "destroy_device"}
C19_RecreateKeepsComponents ==
    [][(mode' = "recreate" /\ pc' \in RecreatePositions) =>
          /\ instance' = instance /\ instance = "live"
          /\ surface' = surface /\ surface = "live"
          /\ device' = device /\ device.state = "live"
          /\ \A i \in 1..Len(calls') : calls'[i] \notin ComponentCalls]_vars
C19_Witness ==
    /\ mode = "recreate" /\ pc = "RecreatePanicked" /\ recreations = 2
    /\ swapchain = 2
    /\ device.graphics_queue # device.present_queue

\* Swapchain::new has picked its values, or has panicked on the way
Negotiated == mode = "negotiate" /\ pc = "Negotiated"
NegotiationOver == mode = "negotiate" /\ pc \in {"Negotiated", "NegotiatePanicked"}
Between(v, lo, hi) == IF v < lo THEN lo ELSE IF hi < v THEN hi ELSE v
CurrentExtentDefined == inputs.current_extent # UndefinedExtent

\* C11: the extent Swapchain::new picks is the surface's current extent
\* whenever that extent is defined, whatever the window size; otherwise it
\* is the window's size with the width brought into [min width, max width]
\* and the height into [min height, max height], each on its own.
C11_ExtentChosen ==
    Negotiated =>
        IF CurrentExtentDefined
        THEN info.extent = inputs.current_extent
        ELSE /\ info.extent.width =
                   Between(inputs.size.width, inputs.min_image_extent.width,
                           inputs.max_image_extent.width)
             /\ info.extent.height =
                   Between(inputs.size.height, inputs.min_image_extent.height,
                           inputs.max_image_extent.height)
\* no current extent, a window too wide and too low: the width comes down to
\* the maximum while the height goes up to the minimum
C11_Witness ==
    /\ Negotiated
    /\ ~CurrentExtentDefined
    /\ inputs.size = Extent2D(2, 0)
    /\ inputs.min_image_extent = Extent2D(1, 1)
    /\ inputs.max_image_extent = Extent2D(1, 2)
    /\ info.extent = Extent2D(1, 1)

\* C12: for every pair of capability values the image count is
\* min_image_count + 1 brought into [min_image_count, max_image_count],
\* max_image_count = 0 standing for no upper limit, and it lies in that range.
\* The sum is the mathematical one; the code computes it on u32.
C12_ImageCountClamped ==
    (NegotiationOver /\ format_of(inputs.surface_formats) # None) =>
        /\ pc = "Negotiated"
        /\ info.image_count =
              IF inputs.max_image_count = 0
              THEN inputs.min_image_count + 1
              ELSE Between(inputs.min_image_count + 1, inputs.min_image_count,
                           inputs.max_image_count)
        /\ info.image_count >= inputs.min_image_count
        /\ inputs.max_image_count # 0 => info.image_count <= inputs.max_image_count

\* C14: when the (B8G8R8A8_SRGB, SRGB_NONLINEAR) pair is not among the
\* surface formats, Swapchain::new ends with an error value returned to the
\* caller (not a panic) and has created no swapchain; when the pair is in
\* the list, at whatever position, it is the format picked.
PreferredOffered ==
    \E k \in 1..Len(inputs.surface_formats) : inputs.surface_formats[k] = PreferredFormat
C14_MissingFormatIsAnError ==
    NegotiationOver =>
        IF PreferredOffered
        THEN pc = "Negotiated" => info.format = PreferredFormat
        ELSE /\ result = "Err"
             /\ \A h \in 1..MaxSwapchains : ~chains[h].created

\* C15: the present mode picked is MAILBOX when MAILBOX is among the modes
\* the surface supports and FIFO otherwise, the empty list included; the
\* choice itself never fails: with the format found and the image count in
\* range, Swapchain::new gets past it whatever the list is.
MailboxOffered ==
    \E k \in 1..Len(inputs.present_modes) : inputs.present_modes[k] = "MAILBOX"
C15_PresentModeChosen ==
    /\ Negotiated =>
          info.present_mode = IF MailboxOffered THEN "MAILBOX" ELSE "FIFO"
    /\ (NegotiationOver /\ PreferredOffered /\ ~add_overflows(inputs)) => Negotiated
\* MAILBOX reported after another mode
C15_Witness ==
    /\ Negotiated
    /\ inputs.present_modes = <<"IMMEDIATE", "MAILBOX">>
    /\ info.present_mode = "MAILBOX"

\* C17: when a requested layer is not among the layers the driver enumerated,
\* construction of the instance fails with a panic that names a requested
\* layer that is missing (the first one in request order), and it fails
\* before create_instance is called: no instance handle exists. This holds
\* for Instance::new (vulkan.rs) and for VulkanBase::new (main.rs).
Requested == IF mode = "base" THEN BASE_INSTANCE_LAYERS ELSE INSTANCE_LAYERS
MissingLayers ==
    {Requested[k] : k \in {j \in 1..Len(Requested) : Requested[j] \notin available_layers[1]}}
C17_MissingLayerFailsBeforeInstance ==
    (available_layers # None /\ MissingLayers # {}) =>
        /\ result = "Panic"
        /\ panic_msg.layer \in MissingLayers
        /\ \A k \in 1..Len(Requested) :
              Requested[k] = panic_msg.layer =>
                  \A j \in 1..(k - 1) : Requested[j] \in available_layers[1]
        /\ instance = "none"
        /\ \A i \in 1..Len(calls) : calls[i] # "create_instance"
\* VulkanBase::new with the validation layer present and the second requested
\* layer absent: the panic names the second layer
C17_Witness ==
    /\ mode = "base"
    /\ pc = "BaseFailed"
    /\ result = "Panic"
    /\ available_layers = Some({"VK_LAYER_KHRONOS_validation", "VK_LAYER_LUNARG_monitor"})
    /\ panic_msg = LayerPanic("Layer not supported", "VK_KHR_swapchain")
    /\ instance = "none"

\* C20: every destroy_device is immediately preceded by a device_wait_idle
\* on the device, and that wait has returned successfully. The code drops the
\* result of the wait (let _ = ..) and destroys the device after an Err too.
C20_DestroyAfterSuccessfulWait ==
    \A i \in 1..Len(calls) :
        calls[i] = "destroy_device" =>
            /\ i > 1
            /\ calls[i - 1] = "device_wait_idle"
            /\ waited = "Ok"

\* the 0-based index idx is the lowest one whose family has GRAPHICS / answers
\* the presentation-support query with true
LowestGraphics(fams, idx) ==
    /\ idx + 1 \in 1..Len(fams)
    /\ fams[idx + 1].graphics
    /\ \A k \in 1..idx : ~fams[k].graphics
LowestPresent(fams, idx) ==
    /\ idx + 1 \in 1..Len(fams)
    /\ fams[idx + 1].present = "yes"
    /\ \A k \in 1..idx : fams[k].present # "yes"

\* C21: for the device Device::new selects, the graphics family index is the
\* lowest index of a family with GRAPHICS and the present family index is the
\* lowest index of a family that can present to the surface, each found on
\* its own; both are what the Device stores.
C21_LowestFamilyIndices ==
    /\ (mode = "new" /\ pc = "DeviceCreate") =>
          /\ LowestGraphics(queue_familie_properties, selected_device[1][2])
          /\ LowestPresent(queue_familie_properties, selected_device[1][3])
    /\ (mode = "new" /\ pc = "ExpectDevice" /\ ret = "Ok") =>
          /\ LowestGraphics(queue_familie_properties, device.graphics_queue_family_idx)
          /\ LowestPresent(queue_familie_properties, device.present_queue_family_idx)
\* the graphics family (index 1) can present, and still the present index is
\* the lower family 0
C21_Witness ==
    /\ mode = "new"
    /\ pc = "ExpectDevice"
    /\ ret = "Ok"
    /\ queue_familie_properties = <<[graphics |-> FALSE, present |-> "yes"],
                                    [graphics |-> TRUE, present |-> "yes"]>>
    /\ device.graphics_queue_family_idx = 1
    /\ device.present_queue_family_idx = 0

\* C22: in every step of the scan of Device::new, a family whose
\* presentation-support query returned an error counts as one that cannot
\* present: the scan goes on with the next family, a device without any
\* family answering true is passed over for the next device exactly as an
\* unsuitable one, and Device::new ends with an Err only when the last
\* device has been passed over, never because of the query error itself.
QueryFailed(fams) == \E k \in 1..Len(fams) : fams[k].present = "err"
NoneAnswersTrue(fams) == \A k \in 1..Len(fams) : fams[k].present # "yes"
C22_QueryErrorMeansNoSupport ==
    [][(mode = "new" /\ pc = "DeviceScan") =>
          LET fams == queue_familie_properties'
          IN /\ selected_device' # None =>
                   /\ pc' = "DeviceCreate"
                   /\ LowestPresent(fams, selected_device'[1][3])
             /\ (NoneAnswersTrue(fams) /\ pdevice < physical_devices) =>
                   /\ pc' = "DeviceScan"
                   /\ pdevice' = pdevice + 1
                   /\ selected_device' = None
                   /\ ret' = ret
             /\ (NoneAnswersTrue(fams) /\ pdevice = physical_devices) =>
                   /\ pc' = "ExpectDevice"
                   /\ ret' = "Err"
                   /\ selected_device' = None
             /\ (QueryFailed(fams) /\ ~NoneAnswersTrue(fams)
                    /\ \E k \in 1..Len(fams) : fams[k].graphics) =>
                   /\ pc' = "DeviceCreate"
                   /\ selected_device' # None
             /\ ret' = "Err" =>
                   /\ pdevice = physical_devices
                   /\ \/ NoneAnswersTrue(fams)
                      \/ \A k \in 1..Len(fams) : ~fams[k].graphics]_vars
\* the first device has GRAPHICS and every one of its queries failed: it was
\* passed over and the scan stands at the second device
C22_Witness ==
    /\ mode = "new"
    /\ pc = "DeviceScan"
    /\ pdevice = 2
    /\ Len(queue_familie_properties) = 2
    /\ \A k \in 1..2 : /\ queue_familie_properties[k].graphics
                         /\ queue_familie_properties[k].present = "err"

====
